---- MODULE Spec2Model ----
(***************************************************************************)
(* Bulk creation of message drafts: zerver/views/drafts.py.                *)
(*                                                                         *)
(* Texts are sequences of characters over {"a", " ", NUL}.  A float Unix    *)
(* timestamp is an integer t counting tenths of a microsecond and stands   *)
(* for the double nearest to t * 1e-7, so that rounding to six decimal     *)
(* digits (one microsecond = 10 units) is not the identity.  A datetime    *)
(* counts whole microseconds.  A JSON value carries its kind.              *)
(***************************************************************************)
EXTENDS Integers, Sequences, FiniteSets, TLC

\* ------------------------------------------------------------------ bounds

\* Longest `to` list drawn for a single-descriptor batch.
MaxTo == 2
\* Longest batch of descriptors drawn from SmallDicts.
MaxBatch == 2
\* Number of clock advances in a behaviour.
MaxTicks == 1
\* Number of requests in flight in ConcSpec.
NumRequests == 2
\* The platform's text limits (10000 and 60 in zerver/models.py), scaled down.
MAX_MESSAGE_LENGTH == 3
MAX_TOPIC_NAME_LENGTH == 2

\* ------------------------------------------------------------- environment

NUL == "NUL"

\* The clock value at the start of a behaviour: 11.4 microseconds.
ClockStart == 100 + 14
\* The values time.time() returns: the clock may advance, stand still
\* between two reads, or be set back.
Clocks == ClockStart..(ClockStart + MaxTicks)

\* Stream and user IDs that requests name.
Ids == {1, 2, 3, 8, 9}
\* Streams that exist, and those each user may access.
ExistingStreams == {1, 2}
AccessibleStreams(user_profile) ==
    IF user_profile = "hamlet" THEN {1} ELSE {1, 2}
\* Users that exist in the realm, and those that are deactivated.
ExistingUsers == {1, 2, 3}
DeactivatedUsers == {3}

\* JSON values of the request, each with its kind: a string, an integer, a
\* float (in tenths of a microsecond), a list of JSON values, an object.
Str(text) == [kind |-> "str", val |-> text]
Integer(n) == [kind |-> "int", val |-> n]
Float(t) == [kind |-> "float", val |-> t]
List(seq) == [kind |-> "list", val |-> seq]
Dict(fields) == [kind |-> "dict", val |-> fields]

NoError == [msg |-> "", args |-> <<>>]
JsonableError(msg, args) == [msg |-> msg, args |-> args]
NullRecipient == [kind |-> "null", ids |-> {}, sender |-> ""]

\* ------------------------------------------------------- library functions

RECURSIVE HasNull(_)
\* "\x00" in text
HasNull(text) ==
    IF text = <<>> THEN FALSE
    ELSE Head(text) = NUL \/ HasNull(Tail(text))

\* truncate_body / truncate_topic: the text cut to the platform's maximum.
Truncate(text, max_length) ==
    IF Len(text) > max_length THEN SubSeq(text, 1, max_length) ELSE text
truncate_body(content) == Truncate(content, MAX_MESSAGE_LENGTH)
truncate_topic(topic) == Truncate(topic, MAX_TOPIC_NAME_LENGTH)

\* The double nearest to t * 1e-7 (t > 0) against t * 1e-7 itself: 1 when
\* the double is the greater, -1 when it is the smaller, 0 when they are
\* equal.  With 2^52 <= t * 2^e / 10^7 < 2^53, the double's mantissa is
\* t * 2^e / 10^7 rounded to an integer, ties to even; the remainder of
\* t * 2^e modulo 2 * 10^7 tells which way that went.
\* The steps go by 2^6 where they can, by 2 where they must.
RECURSIVE ExponentUp(_, _)
ExponentUp(v, e) ==
    IF v >= 10000000 THEN e
    ELSE IF 64 * v < 10000000 THEN ExponentUp(64 * v, e + 6)
    ELSE ExponentUp(2 * v, e + 1)
RECURSIVE ExponentDown(_, _)
ExponentDown(v, e) == IF v < 20000000 THEN e ELSE ExponentDown(v \div 2, e - 1)
RECURSIVE Doubled(_, _)
Doubled(R, e) ==
    IF e = 0 THEN R
    ELSE IF e >= 6 THEN Doubled((64 * R) % 20000000, e - 6)
    ELSE Doubled((2 * R) % 20000000, e - 1)
DoubleError(t) ==
    LET e == IF t < 10000000 THEN ExponentUp(t, 52) ELSE ExponentDown(t, 52)
        R == Doubled(t % 20000000, e)
        r == R % 10000000
    IN  IF r = 0 THEN 0
        ELSE IF r > 5000000 \/ (r = 5000000 /\ R >= 10000000) THEN 1
        ELSE -1

\* The whole number of microseconds nearest to the double a timestamp stands
\* for: the double decides what looks like a tie in decimal, and only a tie
\* that the double holds exactly goes to the even microsecond.
RECURSIVE NearestMicro(_)
NearestMicro(timestamp) ==
    IF timestamp < 0 THEN -NearestMicro(-timestamp)
    ELSE LET q == timestamp \div 10
             r == timestamp % 10
             error == DoubleError(timestamp)
         IN  IF r < 5 THEN q
             ELSE IF r > 5 THEN q + 1
             ELSE IF error > 0 THEN q + 1
             ELSE IF error < 0 THEN q
             ELSE IF q % 2 = 0 THEN q ELSE q + 1

\* round(timestamp, 6)
Round6(timestamp) == 10 * NearestMicro(timestamp)

\* timestamp_to_datetime: a datetime holds whole microseconds.
timestamp_to_datetime(timestamp) == NearestMicro(timestamp)
\* Draft.to_dict()["timestamp"]: the datetime as a Unix timestamp.
datetime_to_timestamp(last_edit_time) == last_edit_time * 10

\* set(to), as CPython builds it from a list of small non-negative ints: a
\* table of 8 slots (no resize below 5 entries), hash(i) = i, a taken slot i
\* sends the probe to (5 * i + 1 + perturb) mod 8 with perturb = hash >> 5
\* per probe.  -1 marks a free slot.
EmptyTable == [s \in 0..7 |-> -1]
RECURSIVE SetProbe(_, _, _, _)
SetProbe(table, key, i, perturb) ==
    IF table[i] = -1 THEN [table EXCEPT ![i] = key]
    ELSE IF table[i] = key THEN table
    ELSE SetProbe(table, key, (5 * i + 1 + (perturb \div 32)) % 8, perturb \div 32)
SetAdd(table, key) == SetProbe(table, key, key % 8, key)
RECURSIVE SetTable(_)
SetTable(to) ==
    IF to = <<>> THEN EmptyTable
    ELSE SetAdd(SetTable(SubSeq(to, 1, Len(to) - 1)), to[Len(to)])
RECURSIVE SlotsFrom(_, _)
SlotsFrom(table, s) ==
    IF s > 7 THEN <<>>
    ELSE (IF table[s] = -1 THEN <<>> ELSE <<table[s]>>) \o SlotsFrom(table, s + 1)
\* The order in which iterating set(to) yields its elements.
SetIterOrder(to) == SlotsFrom(SetTable(to), 0)

\* A stream lookup that tells a missing stream from an inaccessible one.
access_stream_by_id_Leaky(user_profile, stream_id) ==
    IF stream_id \notin ExistingStreams
    THEN [err |-> JsonableError("Stream does not exist", <<>>), why |-> "NotFound",
          recipient |-> NullRecipient]
    ELSE IF stream_id \notin AccessibleStreams(user_profile)
    THEN [err |-> JsonableError("Invalid stream id", <<>>), why |-> "AccessDenied",
          recipient |-> NullRecipient]
    ELSE [err |-> NoError, why |-> "",
          recipient |-> [kind |-> "stream", ids |-> {stream_id}, sender |-> ""]]
\* access_stream_by_id: the stream's recipient, or "Invalid stream id" both
\* for a stream that does not exist and for one the user may not access.
access_stream_by_id(user_profile, stream_id) ==
    IF stream_id \notin ExistingStreams
    THEN [err |-> JsonableError("Invalid stream id", <<>>), why |-> "NotFound",
          recipient |-> NullRecipient]
    ELSE IF stream_id \notin AccessibleStreams(user_profile)
    THEN [err |-> JsonableError("Invalid stream id", <<>>), why |-> "AccessDenied",
          recipient |-> NullRecipient]
    ELSE [err |-> NoError, why |-> "",
          recipient |-> [kind |-> "stream", ids |-> {stream_id}, sender |-> ""]]

RECURSIVE get_user_profiles_by_ids(_)
\* get_user_profiles_by_ids: the users in iteration order, or "Invalid user
\* ID <id>" for the first ID met that names no user.
get_user_profiles_by_ids(user_ids) ==
    IF user_ids = <<>> THEN [err |-> NoError, users |-> <<>>]
    ELSE IF Head(user_ids) \notin ExistingUsers
    THEN [err |-> JsonableError("Invalid user ID", <<Head(user_ids)>>), users |-> <<>>]
    ELSE LET rest == get_user_profiles_by_ids(Tail(user_ids))
         IN  IF rest.err # NoError THEN rest
             ELSE [err |-> NoError, users |-> <<Head(user_ids)>> \o rest.users]

\* recipient_for_user_profiles: the recipient for the set of target users
\* (plus the sender for a group), or a ValidationError.
recipient_for_user_profiles(to_users, sender) ==
    LET ids == {to_users[k] : k \in 1..Len(to_users)}
    IN  IF ids \cap DeactivatedUsers # {}
        THEN [err |-> JsonableError("is no longer using Zulip",
                                    <<CHOOSE u \in ids \cap DeactivatedUsers : TRUE>>),
              recipient |-> NullRecipient]
        ELSE IF Cardinality(ids) = 1
        THEN [err |-> NoError,
              recipient |-> [kind |-> "personal", ids |-> ids, sender |-> ""]]
        ELSE [err |-> NoError,
              recipient |-> [kind |-> "huddle", ids |-> ids, sender |-> sender]]

\* ------------------------------------------------------------ drafts.py

VALID_DRAFT_TYPES == {"", "private", "stream"}

RequiredKeys == {"type", "to", "topic", "content"}
OptionalKeys == {"timestamp"}

\* The validators of zerver/lib/validator.py: NoError when the value passes.
check_string(var_name, val) ==
    IF val.kind # "str" THEN JsonableError(var_name \o " is not a string", <<>>)
    ELSE NoError
check_string_in(possible_values, var_name, val) ==
    IF check_string(var_name, val) # NoError THEN check_string(var_name, val)
    ELSE IF val.val \notin possible_values THEN JsonableError("Invalid " \o var_name, <<>>)
    ELSE NoError
\* not s.strip()
IsBlank(s) == \A k \in 1..Len(s) : s[k] = " "
check_required_string(var_name, val) ==
    IF check_string(var_name, val) # NoError THEN check_string(var_name, val)
    ELSE IF IsBlank(val.val) THEN JsonableError(var_name \o " cannot be blank.", <<>>)
    ELSE NoError
check_int(var_name, val) ==
    IF val.kind # "int" THEN JsonableError(var_name \o " is not an integer", <<>>)
    ELSE NoError
check_float(var_name, val) ==
    IF val.kind # "float" THEN JsonableError(var_name \o " is not a float", <<>>)
    ELSE NoError
\* check_union([check_int, check_float])
check_union(var_name, val) ==
    IF check_int(var_name, val) # NoError /\ check_float(var_name, val) # NoError
    THEN JsonableError(var_name \o " is not an allowed_type", <<>>)
    ELSE NoError
\* The name of the i-th item of a list and of the value of a key.
Item(var_name, i) == var_name \o "[" \o ToString(i - 1) \o "]"
Field(var_name, key) == var_name \o "[\"" \o key \o "\"]"
Missing(var_name, key) == JsonableError(key \o " key is missing from " \o var_name, <<>>)
\* check_list(check_int): the error of the first item that fails.
check_list_of_int(var_name, val) ==
    IF val.kind # "list" THEN JsonableError(var_name \o " is not a list", <<>>)
    ELSE LET bad == {i \in 1..Len(val.val) :
                        check_int(Item(var_name, i), val.val[i]) # NoError}
         IN  IF bad = {} THEN NoError
             ELSE LET i == CHOOSE j \in bad : \A k \in bad : j <= k
                  IN  check_int(Item(var_name, i), val.val[i])

\* draft_dict_validator: check_dict_only over the required keys, in their
\* order, then the optional key, then the keys that are not listed.
draft_dict_validator(var_name, val) ==
    IF val.kind # "dict" THEN JsonableError(var_name \o " is not a dict", <<>>)
    ELSE LET keys == DOMAIN val.val
             unexpected == keys \ (RequiredKeys \cup OptionalKeys)
             type == check_string_in(VALID_DRAFT_TYPES, Field(var_name, "type"), val.val.type)
             to == check_list_of_int(Field(var_name, "to"), val.val.to)
             topic == check_string(Field(var_name, "topic"), val.val.topic)
             content == check_required_string(Field(var_name, "content"), val.val.content)
             timestamp == check_union(Field(var_name, "timestamp"), val.val.timestamp)
         IN  IF "type" \notin keys THEN Missing(var_name, "type")
             ELSE IF type # NoError THEN type
             ELSE IF "to" \notin keys THEN Missing(var_name, "to")
             ELSE IF to # NoError THEN to
             ELSE IF "topic" \notin keys THEN Missing(var_name, "topic")
             ELSE IF topic # NoError THEN topic
             ELSE IF "content" \notin keys THEN Missing(var_name, "content")
             ELSE IF content # NoError THEN content
             ELSE IF "timestamp" \in keys /\ timestamp # NoError THEN timestamp
             ELSE IF unexpected # {}
             THEN JsonableError("Unexpected arguments: "
                                \o (CHOOSE key \in unexpected : TRUE), <<>>)
             ELSE NoError

\* check_list(draft_dict_validator): the error of the first item that fails.
check_list(var_name, val) ==
    IF val.kind # "list" THEN JsonableError(var_name \o " is not a list", <<>>)
    ELSE LET bad == {i \in 1..Len(val.val) :
                        draft_dict_validator(Item(var_name, i), val.val[i]) # NoError}
         IN  IF bad = {} THEN NoError
             ELSE LET i == CHOOSE j \in bad : \A k \in bad : j <= k
                  IN  draft_dict_validator(Item(var_name, i), val.val[i])

\* The value of a JSON value in Python: a list is the list of its items'.
PyValue(json) ==
    IF json.kind = "list" THEN [k \in 1..Len(json.val) |-> json.val[k].val]
    ELSE json.val
\* draft_dict[key]: the Python value of a validated field.
Get(draft_dict, key) == PyValue(draft_dict.val[key])
\* A number as a timestamp in tenths of a microsecond: an int counts seconds.
Number(json) == IF json.kind = "int" THEN json.val * 10000000 ELSE json.val

\* draft_dict.get("timestamp", 0)
TimestampOrZero(draft_dict, now) ==
    IF "timestamp" \in DOMAIN draft_dict.val THEN Number(draft_dict.val.timestamp) ELSE 0
\* draft_dict.get("timestamp", time.time())
TimestampOrNow(draft_dict, now) ==
    IF "timestamp" \in DOMAIN draft_dict.val THEN Number(draft_dict.val.timestamp)
    ELSE now

\* The timestamp check left out.
TimestampUnchecked(timestamp) == FALSE
\* if timestamp < 0
NegativeTimestamp(timestamp) == timestamp < 0

\* topic = draft_dict["topic"]
StreamTopicRaw(draft_dict) == Get(draft_dict, "topic")
\* topic = truncate_topic(draft_dict["topic"])
StreamTopic(draft_dict) == truncate_topic(Get(draft_dict, "topic"))

\* else: every draft that is not a stream draft resolves users.
ResolvesUsersNonStream(draft_dict) == TRUE
\* elif draft_dict["type"] == "private" and len(to) != 0
ResolvesUsers(draft_dict) ==
    Get(draft_dict, "type") = "private" /\ Len(Get(draft_dict, "to")) # 0

\* get_user_profiles_by_ids(to, ...)
UserIdsAsListed(to) == to
\* get_user_profiles_by_ids(set(to), ...): the IDs in the order handed over.
UserIds(to) == SetIterOrder(to)

Call(fn, args) == [fn |-> fn, args |-> args]

Failed(err, why, calls) ==
    [err |-> err, why |-> why, calls |-> calls, recipient |-> NullRecipient,
     topic |-> <<>>, content |-> <<>>, last_edit_time |-> 0]
Validated(recipient, topic, content, last_edit_time, calls) ==
    [err |-> NoError, why |-> "", calls |-> calls, recipient |-> recipient,
     topic |-> topic, content |-> content, last_edit_time |-> last_edit_time]

\* The recipient resolution of further_validated_draft_dict (lines 63-78).
ResolveRecipient(draft_dict, user_profile, content, last_edit_time) ==
    LET to == Get(draft_dict, "to")
    IN  IF Get(draft_dict, "type") = "stream"
        THEN LET topic == StreamTopic(draft_dict)
             IN  IF HasNull(topic)
                 THEN Failed(JsonableError("Topic must not contain null bytes", <<>>),
                             "", <<>>)
                 ELSE IF Len(to) # 1
                 THEN Failed(JsonableError(
                                 "Must specify exactly 1 stream ID for stream messages",
                                 <<>>), "", <<>>)
                 ELSE LET res == access_stream_by_id(user_profile, to[1])
                          calls == <<Call("access_stream_by_id", <<to[1]>>)>>
                      IN  IF res.err # NoError
                          THEN Failed(res.err, res.why, calls)
                          ELSE Validated(res.recipient, topic, content,
                                         last_edit_time, calls)
        ELSE IF ResolvesUsers(draft_dict)
        THEN LET user_ids == UserIds(to)
                 found == get_user_profiles_by_ids(user_ids)
                 calls == <<Call("get_user_profiles_by_ids", user_ids)>>
             IN  IF found.err # NoError
                 THEN Failed(found.err, "InvalidUser", calls)
                 ELSE LET res == recipient_for_user_profiles(found.users, user_profile)
                      IN  IF res.err # NoError
                          THEN Failed(res.err, "ValidationError", calls)
                          ELSE Validated(res.recipient, <<>>, content,
                                         last_edit_time, calls)
        ELSE Validated(NullRecipient, <<>>, content, last_edit_time, <<>>)

\* further_validated_draft_dict with the timestamp checked before the content.
further_validated_draft_dict_Reordered(draft_dict, user_profile, now) ==
    LET content == truncate_body(Get(draft_dict, "content"))
        timestamp == Round6(TimestampOrNow(draft_dict, now))
    IN  IF NegativeTimestamp(timestamp)
        THEN Failed(JsonableError("Timestamp must not be negative.", <<>>), "", <<>>)
        ELSE IF HasNull(content)
        THEN Failed(JsonableError("Content must not contain null bytes", <<>>), "", <<>>)
        ELSE ResolveRecipient(draft_dict, user_profile, content,
                              timestamp_to_datetime(timestamp))

\* further_validated_draft_dict(draft_dict, user_profile); `now` is the value
\* time.time() returns during the call.
further_validated_draft_dict(draft_dict, user_profile, now) ==
    LET content == truncate_body(Get(draft_dict, "content"))
        timestamp == Round6(TimestampOrNow(draft_dict, now))
    IN  IF HasNull(content)
        THEN Failed(JsonableError("Content must not contain null bytes", <<>>), "", <<>>)
        ELSE IF NegativeTimestamp(timestamp)
        THEN Failed(JsonableError("Timestamp must not be negative.", <<>>), "", <<>>)
        ELSE ResolveRecipient(draft_dict, user_profile, content,
                              timestamp_to_datetime(timestamp))

\* Draft(user_profile=..., recipient=..., topic=..., content=..., last_edit_time=...)
Draft(user_profile, valid_draft_dict) ==
    [user_profile |-> user_profile,
     recipient |-> valid_draft_dict.recipient,
     topic |-> valid_draft_dict.topic,
     content |-> valid_draft_dict.content,
     last_edit_time |-> valid_draft_dict.last_edit_time]

\* The ids of the created drafts, last first.
RECURSIVE DraftIdsReversed(_)
DraftIdsReversed(created_draft_objects) ==
    IF created_draft_objects = <<>> THEN <<>>
    ELSE Append(DraftIdsReversed(Tail(created_draft_objects)),
                Head(created_draft_objects).id)
\* draft_ids = [draft_object.id for draft_object in created_draft_objects]
DraftIds(created_draft_objects) ==
    [k \in 1..Len(created_draft_objects) |-> created_draft_objects[k].id]

json_success(ids) == [status |-> "success", ids |-> ids, err |-> NoError]
json_error(err) == [status |-> "error", ids |-> <<>>, err |-> err]
NoResponse == [status |-> "", ids |-> <<>>, err |-> NoError]
\* ------------------------------------------------------------------ inputs

Pad(n) == [k \in 1..n |-> "a"]
\* Lists of IDs: every list of streams and users 1, 2, 8 and 9 up to the
\* maximum length, and lists that name the deactivated user.
Tos ==
    UNION {[1..n -> Ids \ DeactivatedUsers] : n \in 0..MaxTo}
    \cup {<<3>>, <<3, 3>>, <<1, 3>>, <<3, 1>>, <<3, 8>>, <<8, 3>>}
Topics ==
    {<<"a">>, <<NUL>>, Pad(MAX_TOPIC_NAME_LENGTH + 1),
     Pad(MAX_TOPIC_NAME_LENGTH) \o <<NUL>>}
Contents == {<<"a">>, <<NUL>>, Pad(MAX_MESSAGE_LENGTH) \o <<NUL>>}
\* Timestamps: floats below zero that round to a negative and to zero, and
\* a float half-way between two microseconds; whole numbers of seconds.
Timestamps == {Float(-26), Float(-4), Float(35)}
WholeSeconds == {Integer(-1), Integer(1)}

IntList(ids) == List([k \in 1..Len(ids) |-> Integer(ids[k])])
\* A descriptor of the right shape, without and with a timestamp.
DraftDict(type, to, topic, content) ==
    Dict([type |-> Str(type), to |-> IntList(to), topic |-> Str(topic),
          content |-> Str(content)])
Stamped(draft_dict, timestamp) ==
    Dict([k \in DOMAIN draft_dict.val \cup {"timestamp"} |->
             IF k = "timestamp" THEN timestamp ELSE draft_dict.val[k]])
\* A descriptor with the value of one key replaced, added or removed.
With(draft_dict, key, json) ==
    Dict([k \in DOMAIN draft_dict.val \cup {key} |->
             IF k = key THEN json ELSE draft_dict.val[k]])
Without(draft_dict, key) ==
    Dict([k \in DOMAIN draft_dict.val \ {key} |-> draft_dict.val[k]])

\* Descriptors for single-descriptor batches, with and without a timestamp.
RichDicts ==
    {DraftDict(type, to, topic, content) :
        type \in VALID_DRAFT_TYPES, to \in Tos, topic \in Topics, content \in Contents}
    \cup {Stamped(DraftDict(type, to, topic, content), timestamp) :
            type \in VALID_DRAFT_TYPES, to \in Tos, topic \in Topics,
            content \in Contents, timestamp \in Timestamps}
    \cup {Stamped(DraftDict(type, to, <<"a">>, <<"a">>), timestamp) :
            type \in VALID_DRAFT_TYPES, to \in Tos, timestamp \in WholeSeconds}

ValidDict == Stamped(DraftDict("stream", <<1>>, <<"a">>, <<"a">>), Float(14))
BadDict == With(ValidDict, "content", Str(<<NUL>>))

\* Descriptors for longer batches: a valid stream draft, valid private
\* drafts to one user and to a group, and drafts with one thing wrong each.
SmallDicts ==
    {ValidDict,
     Stamped(DraftDict("private", <<1>>, <<NUL>>, <<"a">>), Float(15)),
     Stamped(DraftDict("private", <<1, 2>>, <<"a">>, <<"a">>), Integer(1)),
     BadDict,
     With(ValidDict, "timestamp", Float(-26)),
     With(ValidDict, "to", IntList(<<8>>)),
     Stamped(DraftDict("private", <<9, 8>>, <<"a">>, <<"a">>), Float(15)),
     With(ValidDict, "content", Str(<<>>))}

\* Descriptors of the wrong shape: a key missing, a key too many, a value of
\* the wrong kind or outside its set, a blank content, not an object.
Malformed ==
    {Without(ValidDict, key) : key \in RequiredKeys}
    \cup {With(ValidDict, "extra", Str(<<"a">>)),
          With(ValidDict, "type", Str("bogus")),
          With(ValidDict, "type", Integer(1)),
          With(ValidDict, "to", Str(<<"a">>)),
          With(ValidDict, "to", List(<<Integer(1), Str(<<"a">>)>>)),
          With(ValidDict, "to", List(<<Float(15)>>)),
          With(ValidDict, "topic", Integer(5)),
          With(ValidDict, "content", Integer(5)),
          With(ValidDict, "content", Str(<<" ">>)),
          With(ValidDict, "content", Str(<<" ", " ">>)),
          With(ValidDict, "timestamp", Str(<<"a">>)),
          With(With(ValidDict, "timestamp", Str(<<"a">>)), "extra", Integer(1)),
          Str(<<"a">>),
          IntList(<<1>>)}

\* Values of the "drafts" parameter: lists of descriptors, and a value
\* that is not a list.
Batches ==
    {List(<<>>), Str(<<"a">>), List(<<ValidDict, Str(<<"a">>)>>)}
    \cup {List(<<d>>) : d \in RichDicts \cup SmallDicts \cup Malformed}
    \cup UNION {{List(batch) : batch \in [1..n -> SmallDicts]} : n \in 2..MaxBatch}

\* Batches of the concurrent requests: valid drafts, the last one possibly
\* with a null byte in its content.
ConcBatches ==
    {List([k \in 1..n |-> ValidDict]) : n \in 1..MaxBatch}
    \cup {List([k \in 1..n |-> IF k = n THEN BadDict ELSE ValidDict]) : n \in 1..MaxBatch}

Requests == 1..NumRequests
UserProfiles == {"hamlet", "iago"}
\* Who may issue request r in ConcSpec: request 1 comes from either user, so
\* that it runs beside requests of the same user and of another.
SendersOf(r) == IF r = 1 THEN UserProfiles ELSE {"hamlet"}

\* A draft stored before the behaviour starts (by an earlier request, 0).
ExistingDraft ==
    [id |-> 1, user_profile |-> "iago", recipient |-> NullRecipient, topic |-> <<>>,
     content |-> <<"a">>, last_edit_time |-> 7, req |-> 0, pos |-> 1]

\* ------------------------------------------------------------------- state

VARIABLES
    store,          \* the committed rows of the Draft table, in commit order
    next_id,        \* the next value of the table's id sequence
    clock,          \* time.time(), in tenths of a microsecond
    pc,             \* per request: "idle", "loop", "bulk" or "done"
    user_profile,   \* per request: the requesting user
    draft_dicts,    \* per request: the JSON value of the "drafts" parameter
    idx,            \* per request: the index of the descriptor the loop is at
    draft_objects,  \* per request: the Draft objects built so far
    tx,             \* per request: rows inserted by bulk_create, not committed
    response,       \* per request: the HTTP response
    calls,          \* per request: the resolver calls made, with the index
    why,            \* per request: why the request failed (history)
    t_before,       \* per request: round(time.time(), 6) read before the request
    store_before    \* per request: the store when the request was issued

vars == <<store, next_id, clock, pc, user_profile, draft_dicts, idx, draft_objects,
          tx, response, calls, why, t_before, store_before>>

InitWith(stores) ==
    /\ store \in stores
    /\ next_id = Len(store) + 1
    /\ clock = ClockStart
    /\ pc = [r \in Requests |-> "idle"]
    /\ user_profile = [r \in Requests |-> ""]
    /\ draft_dicts = [r \in Requests |-> List(<<>>)]
    /\ idx = [r \in Requests |-> 1]
    /\ draft_objects = [r \in Requests |-> <<>>]
    /\ tx = [r \in Requests |-> <<>>]
    /\ response = [r \in Requests |-> NoResponse]
    /\ calls = [r \in Requests |-> <<>>]
    /\ why = [r \in Requests |-> ""]
    /\ t_before = [r \in Requests |-> 0]
    /\ store_before = [r \in Requests |-> <<>>]

Init == InitWith({<<>>, <<ExistingDraft>>})
ConcInit == InitWith({<<>>})

\* time.time() changes: forward, or back when the system clock is set back.
Tick ==
    /\ \E t \in Clocks \ {clock} : clock' = t
    /\ UNCHANGED <<store, next_id, pc, user_profile, draft_dicts, idx, draft_objects,
                   tx, response, calls, why, t_before, store_before>>

\* The request arrives: REQ("drafts", validator=check_list(draft_dict_validator))
\* runs before the body of create_drafts.
Submit(r, user, drafts) ==
    /\ pc[r] = "idle"
    /\ user_profile' = [user_profile EXCEPT ![r] = user]
    /\ draft_dicts' = [draft_dicts EXCEPT ![r] = drafts]
    /\ t_before' = [t_before EXCEPT ![r] = Round6(clock)]
    /\ store_before' = [store_before EXCEPT ![r] = store]
    /\ IF check_list("drafts", drafts) # NoError
       THEN /\ pc' = [pc EXCEPT ![r] = "done"]
            /\ response' = [response EXCEPT
                  ![r] = json_error(check_list("drafts", drafts))]
            /\ why' = [why EXCEPT ![r] = "Structural"]
       ELSE /\ pc' = [pc EXCEPT ![r] = IF drafts.val = <<>> THEN "bulk" ELSE "loop"]
            /\ UNCHANGED <<response, why>>
    /\ UNCHANGED <<store, next_id, clock, idx, draft_objects, tx, calls>>

\* A stored row: the Draft object with its id, and (history) the request and
\* the position in the batch it comes from.
Row(draft_object, id, r, pos) ==
    [id |-> id, user_profile |-> draft_object.user_profile,
     recipient |-> draft_object.recipient, topic |-> draft_object.topic,
     content |-> draft_object.content,
     last_edit_time |-> draft_object.last_edit_time, req |-> r, pos |-> pos]

\* One iteration of the loop of create_drafts, but for the store.
LoopBody(r) ==
    /\ pc[r] = "loop"
    /\ LET valid_draft_dict ==
               further_validated_draft_dict(draft_dicts[r].val[idx[r]], user_profile[r],
                                            clock)
           made == [k \in 1..Len(valid_draft_dict.calls) |->
                       [fn |-> valid_draft_dict.calls[k].fn,
                        args |-> valid_draft_dict.calls[k].args, at |-> idx[r]]]
       IN  /\ calls' = [calls EXCEPT ![r] = @ \o made]
           /\ IF valid_draft_dict.err # NoError
              THEN /\ pc' = [pc EXCEPT ![r] = "done"]
                   /\ response' = [response EXCEPT
                                     ![r] = json_error(valid_draft_dict.err)]
                   /\ why' = [why EXCEPT ![r] = IF valid_draft_dict.why = ""
                                                THEN "Validation"
                                                ELSE valid_draft_dict.why]
                   /\ UNCHANGED <<idx, draft_objects>>
              ELSE /\ draft_objects' =
                         [draft_objects EXCEPT
                            ![r] = Append(@, Draft(user_profile[r], valid_draft_dict))]
                   /\ idx' = [idx EXCEPT ![r] = @ + 1]
                   /\ pc' = [pc EXCEPT ![r] = IF idx[r] = Len(draft_dicts[r].val)
                                              THEN "bulk" ELSE "loop"]
                   /\ UNCHANGED <<response, why>>
    /\ UNCHANGED <<clock, user_profile, draft_dicts, tx, t_before, store_before>>

\* The loop with every draft saved as soon as it is built.
LoopStepSaving(r) ==
    /\ LoopBody(r)
    /\ IF pc'[r] # "done"
       THEN /\ store' = Append(store, Row(draft_objects'[r][idx[r]], next_id, r, idx[r]))
            /\ next_id' = next_id + 1
       ELSE UNCHANGED <<store, next_id>>

\* for draft_dict in draft_dicts: ... draft_objects.append(Draft(...))
LoopStep(r) ==
    /\ LoopBody(r)
    /\ UNCHANGED <<store, next_id>>

\* Draft.objects.bulk_create inserts the next row inside its transaction;
\* the id comes from the table's sequence.
InsertRow(r) ==
    /\ pc[r] = "bulk"
    /\ Len(tx[r]) < Len(draft_objects[r])
    /\ tx' = [tx EXCEPT
                ![r] = Append(@, Row(draft_objects[r][Len(@) + 1], next_id, r,
                                     Len(@) + 1))]
    /\ next_id' = next_id + 1
    /\ UNCHANGED <<store, clock, pc, user_profile, draft_dicts, idx, draft_objects,
                   response, calls, why, t_before, store_before>>

\* bulk_create commits and create_drafts returns the ids.
Commit(r) ==
    /\ pc[r] = "bulk"
    /\ Len(tx[r]) = Len(draft_objects[r])
    /\ store' = store \o tx[r]
    /\ response' = [response EXCEPT ![r] = json_success(DraftIds(tx[r]))]
    /\ tx' = [tx EXCEPT ![r] = <<>>]
    /\ pc' = [pc EXCEPT ![r] = "done"]
    /\ UNCHANGED <<next_id, clock, user_profile, draft_dicts, idx, draft_objects,
                   calls, why, t_before, store_before>>

\* bulk_create fails part-way: its transaction rolls back, the failure
\* propagates as an internal error.
FailWrite(r) ==
    /\ pc[r] = "bulk"
    /\ tx' = [tx EXCEPT ![r] = <<>>]
    /\ response' = [response EXCEPT
                      ![r] = json_error(JsonableError("Internal server error", <<>>))]
    /\ why' = [why EXCEPT ![r] = "StorageFailure"]
    /\ pc' = [pc EXCEPT ![r] = "done"]
    /\ UNCHANGED <<store, next_id, clock, user_profile, draft_dicts, idx,
                   draft_objects, calls, t_before, store_before>>

\* One request by hamlet, from any batch.
Next ==
    \/ Tick
    \/ pc[1] = "idle" /\ \E batch \in Batches : Submit(1, "hamlet", batch)
    \/ LoopStep(1)
    \/ InsertRow(1)
    \/ Commit(1)
    \/ FailWrite(1)

Spec == Init /\ [][Next]_vars

\* Requests in flight together.
ConcNext ==
    \/ \E r \in Requests :
           pc[r] = "idle" /\ \E user \in SendersOf(r), batch \in ConcBatches :
                                 Submit(r, user, batch)
    \/ \E r \in Requests : LoopStep(r)
    \/ \E r \in Requests : InsertRow(r)
    \/ \E r \in Requests : Commit(r)
    \/ \E r \in Requests : FailWrite(r)

ConcSpec == ConcInit /\ [][ConcNext]_vars
\* A request and its twin, which differ only in the stream the last
\* descriptor names: one that does not exist, one hamlet may not access.
StreamProbes ==
    {DraftDict("stream", to, topic, content) :
        to \in {<<8>>, <<9>>}, topic \in Topics, content \in Contents}
    \cup {Stamped(DraftDict("stream", to, topic, content), timestamp) :
            to \in {<<8>>, <<9>>}, topic \in Topics, content \in Contents,
            timestamp \in Timestamps}
ProbeBatches ==
    {List(<<d>>) : d \in StreamProbes} \cup {List(<<ValidDict, d>>) : d \in StreamProbes}
Twin(drafts) ==
    List([k \in 1..Len(drafts.val) |->
            IF k = Len(drafts.val) THEN With(drafts.val[k], "to", IntList(<<2>>))
            ELSE drafts.val[k]])

PairNext ==
    \/ Tick
    \/ pc[1] = "idle" /\ \E batch \in ProbeBatches : Submit(1, "hamlet", batch)
    \/ pc[1] # "idle" /\ Submit(2, "hamlet", Twin(draft_dicts[1]))
    \/ \E r \in {1, 2} : LoopStep(r)

PairSpec == Init /\ [][PairNext]_vars
\* ------------------------------------------------------------- properties

RowsOf(r) == SelectSeq(store, LAMBDA row : row.req = r)
\* The request passed the structural validator.
StructurallyValid(r) == check_list("drafts", draft_dicts[r]) = NoError
\* The descriptors of a request, none if the parameter is not a list.
Descriptors(r) == IF draft_dicts[r].kind = "list" THEN draft_dicts[r].val ELSE <<>>
\* The k-th descriptor of a structurally valid request as a record of plain
\* values, the timestamp in tenths of a microsecond.
Descriptor(r, k) ==
    LET d == Descriptors(r)[k]
    IN  [key \in DOMAIN d.val |->
            IF key = "timestamp" THEN Number(d.val.timestamp) ELSE Get(d, key)]
StoredTimestamp(row) == datetime_to_timestamp(row.last_edit_time)

\* The first n characters of a text.
Prefix(text, n) == [k \in 1..(IF Len(text) < n THEN Len(text) ELSE n) |-> text[k]]
Elements(seq) == {seq[k] : k \in 1..Len(seq)}

\* What the specification says of a structurally valid descriptor: the
\* message of the first check it fails, in the order content, timestamp,
\* topic, number of stream IDs, stream access (stream drafts), user lookup
\* and recipient derivation (private drafts with recipients); "" if none.
ExpectedMsg(d, user) ==
    IF HasNull(Prefix(d.content, MAX_MESSAGE_LENGTH))
    THEN "Content must not contain null bytes"
    ELSE IF "timestamp" \in DOMAIN d /\ d.timestamp < -5
    THEN "Timestamp must not be negative."
    ELSE IF d.type = "stream"
    THEN IF HasNull(Prefix(d.topic, MAX_TOPIC_NAME_LENGTH))
         THEN "Topic must not contain null bytes"
         ELSE IF Len(d.to) # 1
         THEN "Must specify exactly 1 stream ID for stream messages"
         ELSE IF d.to[1] \notin AccessibleStreams(user)
         THEN "Invalid stream id"
         ELSE ""
    ELSE IF d.type = "private" /\ d.to # <<>>
    THEN IF Elements(d.to) \ ExistingUsers # {}
         THEN "Invalid user ID"
         ELSE IF Elements(d.to) \cap DeactivatedUsers # {}
         THEN "is no longer using Zulip"
         ELSE ""
    ELSE ""

Expected(r, k) == ExpectedMsg(Descriptor(r, k), user_profile[r])
AllValid(r) ==
    StructurallyValid(r) /\ \A k \in 1..Len(Descriptors(r)) : Expected(r, k) = ""
\* The first descriptor of a structurally valid batch that fails a check; 0
\* if none does.
FirstFailing(r) ==
    IF \A k \in 1..Len(Descriptors(r)) : Expected(r, k) = "" THEN 0
    ELSE CHOOSE k \in 1..Len(Descriptors(r)) :
            /\ Expected(r, k) # ""
            /\ \A j \in 1..(k - 1) : Expected(r, j) = ""

\* C1: a request whose batch holds a descriptor that fails structural
\* validation or normalization, at any index, never reaches the batch write,
\* ends in an error response and leaves the store as it was: no draft of an
\* earlier, valid descriptor of the batch is persisted.
C1_AllOrNothing ==
    \A r \in Requests :
        (pc[r] # "idle" /\ ~AllValid(r)) =>
            /\ pc[r] # "bulk"
            /\ tx[r] = <<>>
            /\ RowsOf(r) = <<>>
            /\ store = store_before[r]
            /\ pc[r] = "done" => response[r].status = "error"

\* A batch of two whose first descriptor was accepted and whose last one
\* failed has ended in an error, over a store that was not empty.
C1_Witness ==
    /\ pc[1] = "done"
    /\ Len(Descriptors(1)) = 2
    /\ StructurallyValid(1)
    /\ Expected(1, 1) = "" /\ Expected(1, 2) # ""
    /\ Len(draft_objects[1]) = 1
    /\ response[1].status = "error"
    /\ store_before[1] # <<>>

\* C2: a batch of N descriptors that all pass validation and normalization
\* (the store not failing) persists exactly N new drafts and returns N
\* pairwise distinct ids, the i-th being the id of the draft built from the
\* i-th descriptor.
C2_BatchCreated ==
    \A r \in Requests :
        (pc[r] = "done" /\ AllValid(r) /\ why[r] # "StorageFailure") =>
            LET ids == response[r].ids
                N == Len(Descriptors(r))
            IN  /\ response[r].status = "success"
                /\ Len(ids) = N
                /\ \A i, j \in 1..N : i # j => ids[i] # ids[j]
                /\ Len(RowsOf(r)) = N
                /\ Len(store) = Len(store_before[r]) + N
                /\ \A i \in 1..N :
                      /\ \A k \in 1..Len(store_before[r]) :
                            store_before[r][k].id # ids[i]
                      /\ \E k \in 1..Len(store) :
                            /\ store[k].id = ids[i]
                            /\ store[k].req = r
                            /\ store[k].pos = i
                            /\ store[k].user_profile = user_profile[r]
                            /\ store[k].content =
                                 Prefix(Descriptor(r, i).content, MAX_MESSAGE_LENGTH)
                            /\ store[k].topic =
                                 IF Descriptor(r, i).type = "stream"
                                 THEN Prefix(Descriptor(r, i).topic, MAX_TOPIC_NAME_LENGTH)
                                 ELSE <<>>

\* A batch of two different valid descriptors has been created.
C2_Witness ==
    /\ pc[1] = "done"
    /\ response[1].status = "success"
    /\ Len(response[1].ids) = 2
    /\ Descriptor(1, 1).type = "stream" /\ Descriptor(1, 2).type = "private"
    /\ store_before[1] # <<>>

\* C3: with requests interleaved, in every state each batch's drafts are all
\* in the store or none is, also when a batch write fails part-way.
C3_AtomicVisibility ==
    \A r \in Requests :
        LET rows == RowsOf(r)
        IN  \/ rows = <<>>
            \/ /\ Len(rows) = Len(Descriptors(r))
               /\ \A k \in 1..Len(rows) : rows[k].pos = k

\* One batch of two failed after its first row was inserted, while another
\* request's rows were inserted around it and committed.
C3_Witness ==
    \E r1, r2 \in Requests :
        /\ r1 # r2
        /\ why[r1] = "StorageFailure"
        /\ Len(draft_objects[r1]) = 2
        /\ RowsOf(r1) = <<>>
        /\ response[r2].ids = <<1, 3>>
        /\ Len(RowsOf(r2)) = 2
        /\ next_id = 4
        /\ user_profile[r1] = user_profile[r2]

\* C4: every persisted draft has non-empty content without a null byte, a
\* topic without a null byte and a last-edit timestamp >= 0.
C4_StoreInvariant ==
    \A k \in 1..Len(store) :
        /\ store[k].content # <<>>
        /\ ~HasNull(store[k].content)
        /\ ~HasNull(store[k].topic)
        /\ StoredTimestamp(store[k]) >= 0

\* A stream draft is stored whose input had a null byte past the limit in
\* its content and in its topic, and a timestamp just below zero.
C4_Witness ==
    \E k \in 1..Len(store) :
        /\ store[k].req = 1
        /\ LET d == Descriptor(1, store[k].pos)
           IN  /\ d.type = "stream"
               /\ HasNull(d.content) /\ HasNull(d.topic)
               /\ "timestamp" \in DOMAIN d /\ d.timestamp < 0
\* A finished request that stored a single draft.
StoredOne(r) ==
    pc[r] = "done" /\ response[r].status = "success" /\ Len(Descriptors(r)) = 1
RowOfId(id) == store[CHOOSE k \in 1..Len(store) : store[k].id = id]

\* C5: a valid single stream draft with exactly one ID of an accessible
\* stream and a timestamp is stored with the input topic cut to the maximum
\* topic length, the recipient the stream-access resolver returns for the ID,
\* and the input timestamp rounded to the nearest microsecond.
C5_StreamDraftStored ==
    \A r \in Requests :
        (StoredOne(r) /\ Descriptor(r, 1).type = "stream"
                      /\ "timestamp" \in DOMAIN Descriptor(r, 1)) =>
            LET d == Descriptor(r, 1)
                row == RowOfId(response[r].ids[1])
            IN  /\ Len(d.to) = 1
                /\ d.to[1] \in AccessibleStreams(user_profile[r])
                /\ row.topic = Prefix(d.topic, MAX_TOPIC_NAME_LENGTH)
                /\ row.recipient = access_stream_by_id(user_profile[r], d.to[1]).recipient
                /\ row.recipient.kind = "stream"
                /\ StoredTimestamp(row) % 10 = 0
                /\ StoredTimestamp(row) - d.timestamp \in -5..5

\* A stream draft is stored whose topic was cut and whose timestamp moved.
C5_Witness ==
    /\ StoredOne(1)
    /\ Descriptor(1, 1).type = "stream"
    /\ "timestamp" \in DOMAIN Descriptor(1, 1)
    /\ Len(Descriptor(1, 1).topic) > MAX_TOPIC_NAME_LENGTH
    /\ StoredTimestamp(RowOfId(response[1].ids[1])) # Descriptor(1, 1).timestamp

\* Descriptors for which no recipient is resolved.
NoRecipient(d) == d.type = "" \/ (d.type = "private" /\ d.to = <<>>)

\* C6: an accepted descriptor that is not of type "stream" is stored with
\* the empty topic; of type "", or "private" with an empty `to`, it is stored
\* with the null recipient, and for such a descriptor no resolver is called.
C6_NonStreamDraft ==
    \A r \in Requests :
        /\ \A k \in 1..Len(store) :
              store[k].req = r =>
                  LET d == Descriptor(r, store[k].pos)
                  IN  /\ d.type # "stream" => store[k].topic = <<>>
                      /\ NoRecipient(d) => store[k].recipient = NullRecipient
        /\ StructurallyValid(r) =>
              \A c \in 1..Len(calls[r]) : ~NoRecipient(Descriptor(r, calls[r][c].at))

\* A draft of type "" is stored whose input named a recipient and a topic.
C6_Witness ==
    \E k \in 1..Len(store) :
        /\ store[k].req = 1
        /\ Descriptor(1, store[k].pos).type = ""
        /\ Descriptor(1, store[k].pos).to # <<>>
        /\ Descriptor(1, store[k].pos).topic # <<>>
        /\ calls[1] = <<>>

\* The first ID of a list that names no user.
FirstInvalid(ids) ==
    ids[CHOOSE k \in 1..Len(ids) :
            /\ ids[k] \notin ExistingUsers
            /\ \A j \in 1..(k - 1) : ids[j] \in ExistingUsers]

\* A finished request whose first failing descriptor is a private draft
\* with an ID in `to` that names no user.
FailedOnUser(r) ==
    /\ pc[r] = "done"
    /\ StructurallyValid(r)
    /\ FirstFailing(r) # 0
    /\ Expected(r, FirstFailing(r)) = "Invalid user ID"

\* C7 as stated: the error names the first invalid ID in the order of `to`.
C7_FirstInvalidInTo ==
    \A r \in Requests :
        FailedOnUser(r) =>
            /\ response[r] = json_error(JsonableError(
                    "Invalid user ID", <<FirstInvalid(Descriptor(r, FirstFailing(r)).to)>>))
            /\ RowsOf(r) = <<>>

\* C7, amended: the error is "Invalid user ID <id>" for the first invalid ID
\* in the iteration order of set(to), an ID of `to` that names no user but
\* not always the earliest such in `to`; no draft is persisted.
C7_FirstInvalidInSetOrder ==
    \A r \in Requests :
        FailedOnUser(r) =>
            LET to == Descriptor(r, FirstFailing(r)).to
            IN  /\ response[r] = json_error(JsonableError(
                        "Invalid user ID", <<FirstInvalid(SetIterOrder(to))>>))
                /\ response[r].err.args[1] \in Elements(to) \ ExistingUsers
                /\ RowsOf(r) = <<>>
                /\ store = store_before[r]

\* The request named users 9 and 8, in that order, and the error names 8.
C7_Witness ==
    /\ FailedOnUser(1)
    /\ Descriptor(1, FirstFailing(1)).to = <<9, 8>>
    /\ response[1].err.args = <<8>>

\* C8: a request naming a stream that does not exist and its twin naming a
\* stream the requester may not access end in the same response, "Invalid
\* stream id" when the descriptor passes the earlier checks, and leave the
\* same, unchanged store.
C8_StreamExistenceHidden ==
    (pc[1] = "done" /\ pc[2] = "done") =>
        /\ response[1] = response[2]
        /\ response[1].status = "error"
        /\ store = store_before[1] /\ store = store_before[2]
        /\ why[1] \in {"NotFound", "AccessDenied"} =>
              response[1] = json_error(JsonableError("Invalid stream id", <<>>))

\* Both requests failed at the stream lookup, one for a stream that does
\* not exist, the other for a stream that may not be accessed.
C8_Witness ==
    /\ pc[1] = "done" /\ pc[2] = "done"
    /\ Len(Descriptors(1)) = 2
    /\ why[1] = "NotFound" /\ why[2] = "AccessDenied"
    /\ Descriptor(1, 2).to[1] \notin ExistingStreams
    /\ Descriptor(2, 2).to[1] \in ExistingStreams \ AccessibleStreams(user_profile[2])

\* A stored row of request r whose descriptor gave no timestamp.
Unstamped(r, k) ==
    store[k].req = r /\ "timestamp" \notin DOMAIN Descriptor(r, store[k].pos)

PreResolverMsgs ==
    {"Content must not contain null bytes", "Timestamp must not be negative.",
     "Topic must not contain null bytes",
     "Must specify exactly 1 stream ID for stream messages"}

\* C10: for a structurally valid batch the error is that of the first check
\* failed by the first failing descriptor, the loop stops there, and no
\* resolver is called for a later descriptor or for a descriptor that fails
\* a check made before the resolver's.
C10_FirstErrorWins ==
    \A r \in Requests :
        (pc[r] = "done" /\ StructurallyValid(r) /\ FirstFailing(r) # 0) =>
            LET k == FirstFailing(r)
            IN  /\ response[r].status = "error"
                /\ response[r].err.msg = Expected(r, k)
                /\ idx[r] = k
                /\ \A c \in 1..Len(calls[r]) : calls[r][c].at <= k
                /\ Expected(r, k) \in PreResolverMsgs =>
                      \A c \in 1..Len(calls[r]) : calls[r][c].at < k

\* A stream draft with an empty `to`, a null byte in its topic and a
\* negative timestamp reports the timestamp.
C10_Witness ==
    /\ pc[1] = "done"
    /\ Len(Descriptors(1)) = 1
    /\ StructurallyValid(1)
    /\ Descriptor(1, 1).type = "stream"
    /\ Descriptor(1, 1).to = <<>>
    /\ HasNull(Prefix(Descriptor(1, 1).topic, MAX_TOPIC_NAME_LENGTH))
    /\ response[1].err.msg = "Timestamp must not be negative."
====
